---- MODULE Spec2Model ----
(***************************************************************************)
(* A model of package promises (promises.go): the settlement state of a    *)
(* Promise[T] (optionalValue, reason, done, mutex), the resolve and reject  *)
(* closures built by New, and the waiting and inspecting methods.           *)
(* T is int.  Every goroutine advances one statement at a time, so every    *)
(* interleaving the Go scheduler can produce is a behaviour of the model.   *)
(***************************************************************************)
EXTENDS Integers, Sequences, FiniteSets, TLC

\* ------------------------------------------------------------------ bounds
\* The values handed to resolve are 0..MaxValue.
MaxValue == 1
\* The number of resolve/reject calls made on the promise, all goroutines
\* together.
MaxCalls == 2

\* ------------------------------------------------------- values and errors
Values == 0 .. MaxValue
\* The zero value of T, what option.None[T]().Value() yields.
Zero == 0
\* The nil error.
Nil == "nil"
errNilReason == "nil reason"
\* What ctx.Err() returns once the context is canceled.
ctxErr == "context canceled"
\* The non-nil errors user code passes to reject.
Reasons == {"something went wrong"}

\* option.None[T]() and option.Some(value)
None == [ok |-> FALSE, v |-> Zero]
Some(value) == [ok |-> TRUE, v |-> value]

\* ---------------------------------------------------------------- processes
\* The promise under study.
Promises == {"p"}
\* The goroutines that hold the resolve and reject closures of the promise:
\* the executor New starts, and one the executor hands the closures to.
Settlers == {"executor", "helper"}
NoHolder == "none"

\* The calls user code can make on the closures.
ResolveCalls == [fn : {"resolve"}, arg : Values]
RejectCalls == [fn : {"reject"}, arg : Reasons \cup {Nil}]
Calls == ResolveCalls \cup RejectCalls
NoCall == [fn |-> "none", arg |-> Nil]

VARIABLES
    optionalValue,  \* p.optionalValue
    reason,         \* p.reason
    done,           \* p.done: "open", or "closed" once close(p.done) ran
    panicked,       \* a goroutine panicked (close of a closed channel)
    mutexW,         \* p.mutex: the goroutine holding the write lock
    mutexR,         \* p.mutex: the goroutines holding a read lock
    spc,            \* per settler: the statement it is at
    scall,          \* per settler: the call it is executing
    ncalls,         \* per settler: the resolve/reject calls it has started
    passed,         \* history: the calls that got past the isSettled check
    ctxDone,        \* the context's Done channel is closed (it was canceled)
    cpc,            \* per caller: the statement it is at
    cm,             \* per caller: the method it is executing
    cres,           \* per caller: what the method read, ran and returned
    order,          \* history: per promise, the promises already closed when
                    \* its outcome was written
    akind,          \* the aggregator called: "All", "AllSettled", or "none"
    promises,       \* the aggregator's argument: the input promises, in order
    results,        \* the aggregator's results slice
    wg,             \* the aggregator's sync.WaitGroup counter
    spawned,        \* the aggregator's loop: child goroutines started so far
    status,         \* a Status value user code holds
    str             \* what status.String() returned, NoString before the call

pvars == <<optionalValue, reason, done, panicked, mutexW, mutexR>>
svars == <<spc, scall, ncalls, passed>>
cvars == <<ctxDone, cpc, cm, cres>>
avars == <<akind, promises, results, wg, spawned>>
rvars == <<status, str>>

\* ------------------------------------------------------- promise predicates
isFulfilled(p) == optionalValue[p].ok
isRejected(p) == reason[p] # Nil
isSettled(p) == isFulfilled(p) \/ isRejected(p)

\* New: the fields of a fresh promise.
NewPromise ==
    /\ optionalValue = [p \in Promises |-> None]
    /\ reason = [p \in Promises |-> Nil]
    /\ done = [p \in Promises |-> "open"]
    /\ panicked = FALSE
    /\ mutexW = [p \in Promises |-> NoHolder]
    /\ mutexR = [p \in Promises |-> {}]

\* ------------------------------------------------------------ sync.RWMutex
\* Lock is granted when nobody holds the mutex, RLock when no writer does.
\* (Go's writer preference only delays some RLock grants; it removes
\* interleavings and adds none.)
CanLock(p) == mutexW[p] = NoHolder /\ mutexR[p] = {}
CanRLock(p) == mutexW[p] = NoHolder

\* The promises whose done channel is closed.
Closed == {q \in DOMAIN done : done[q] = "closed"}

\* --------------------------------------------- resolve and reject closures
RECURSIVE SumOver(_, _)
SumOver(f, S) ==
    IF S = {} THEN 0
    ELSE LET x == CHOOSE y \in S : TRUE IN f[x] + SumOver(f, S \ {x})
TotalCalls == SumOver(ncalls, Settlers)

\* User code calls resolve(arg) or reject(arg).
Call(s, p, c) ==
    /\ spc[s] = "idle"
    /\ TotalCalls < MaxCalls
    /\ spc' = [spc EXCEPT ![s] = "Lock"]
    /\ scall' = [scall EXCEPT ![s] = c]
    /\ ncalls' = [ncalls EXCEPT ![s] = @ + 1]
    /\ UNCHANGED <<pvars, passed, cvars, order, avars, rvars>>

\* Lock, were the closure to skip p.mutex.Lock().
LockSkipped(s, p) ==
    /\ spc[s] = "Lock"
    /\ spc' = [spc EXCEPT ![s] = "isSettled"]
    /\ UNCHANGED <<pvars, scall, ncalls, passed, cvars, order, avars, rvars>>

\* p.mutex.Lock()
Lock(s, p) ==
    /\ spc[s] = "Lock"
    /\ CanLock(p)
    /\ mutexW' = [mutexW EXCEPT ![p] = s]
    /\ spc' = [spc EXCEPT ![s] = "isSettled"]
    /\ UNCHANGED <<optionalValue, reason, done, panicked, mutexR,
                   scall, ncalls, passed, cvars, order, avars, rvars>>

\* CheckSettled, were the closure to go on whatever p.isSettled() says.
CheckSettledIgnored(s, p) ==
    /\ spc[s] = "isSettled"
    /\ spc' = [spc EXCEPT ![s] = "write"]
    /\ passed' = passed \cup {[by |-> s, nth |-> ncalls[s], call |-> scall[s]]}
    /\ UNCHANGED <<pvars, scall, ncalls, cvars, order, avars, rvars>>

\* CheckSettled, were the closure to test p.isFulfilled() alone.
CheckSettledFulfilledOnly(s, p) ==
    /\ spc[s] = "isSettled"
    /\ IF isFulfilled(p)
         THEN /\ spc' = [spc EXCEPT ![s] = "Unlock"]
              /\ UNCHANGED passed
         ELSE /\ spc' = [spc EXCEPT ![s] = "write"]
              /\ passed' = passed \cup {[by |-> s, nth |-> ncalls[s], call |-> scall[s]]}
    /\ UNCHANGED <<pvars, scall, ncalls, cvars, order, avars, rvars>>

\* if p.isSettled() { return }
CheckSettled(s, p) ==
    /\ spc[s] = "isSettled"
    /\ IF isSettled(p)
         THEN /\ spc' = [spc EXCEPT ![s] = "Unlock"]
              /\ UNCHANGED passed
         ELSE /\ spc' = [spc EXCEPT ![s] = "write"]
              /\ passed' = passed \cup {[by |-> s, nth |-> ncalls[s], call |-> scall[s]]}
    /\ UNCHANGED <<pvars, scall, ncalls, cvars, order, avars, rvars>>

\* Write, were reject to store the reason it is given, nil included.
WriteNilReason(s, p) ==
    /\ spc[s] = "write"
    /\ IF scall[s].fn = "resolve"
         THEN /\ optionalValue' = [optionalValue EXCEPT ![p] = Some(scall[s].arg)]
              /\ UNCHANGED reason
         ELSE /\ reason' = [reason EXCEPT ![p] = scall[s].arg]
              /\ UNCHANGED optionalValue
    /\ spc' = [spc EXCEPT ![s] = "close"]
    /\ order' = [order EXCEPT ![p] = Closed]
    /\ UNCHANGED <<done, panicked, mutexW, mutexR, scall, ncalls, passed, cvars, avars, rvars>>

\* resolve: p.optionalValue = option.Some(value)
\* reject:  p.reason = errNilReason when reason == nil, else p.reason = reason
Write(s, p) ==
    /\ spc[s] = "write"
    /\ IF scall[s].fn = "resolve"
         THEN /\ optionalValue' = [optionalValue EXCEPT ![p] = Some(scall[s].arg)]
              /\ UNCHANGED reason
         ELSE /\ reason' = [reason EXCEPT ![p] =
                               IF scall[s].arg = Nil THEN errNilReason
                                                     ELSE scall[s].arg]
              /\ UNCHANGED optionalValue
    /\ spc' = [spc EXCEPT ![s] = "close"]
    /\ order' = [order EXCEPT ![p] = Closed]
    /\ UNCHANGED <<done, panicked, mutexW, mutexR, scall, ncalls, passed, cvars, avars, rvars>>

\* Close, were the closure to return without close(p.done).
CloseMissing(s, p) ==
    /\ spc[s] = "close"
    /\ spc' = [spc EXCEPT ![s] = "Unlock"]
    /\ UNCHANGED <<pvars, scall, ncalls, passed, cvars, order, avars, rvars>>

\* defer close(p.done): runs first of the two deferred calls; closing a
\* closed channel panics.
Close(s, p) ==
    /\ spc[s] = "close"
    /\ IF done[p] = "closed"
         THEN panicked' = TRUE /\ UNCHANGED done
         ELSE /\ done' = [done EXCEPT ![p] = "closed"]
              /\ UNCHANGED panicked
    /\ spc' = [spc EXCEPT ![s] = "Unlock"]
    /\ UNCHANGED <<optionalValue, reason, mutexW, mutexR, scall, ncalls, passed,
                   cvars, order, avars, rvars>>

\* Unlock, were the closure to return without p.mutex.Unlock().
UnlockMissing(s, p) ==
    /\ spc[s] = "Unlock"
    /\ spc' = [spc EXCEPT ![s] = "idle"]
    /\ scall' = [scall EXCEPT ![s] = NoCall]
    /\ UNCHANGED <<pvars, ncalls, passed, cvars, order, avars, rvars>>

\* defer p.mutex.Unlock(), and the closure returns
Unlock(s, p) ==
    /\ spc[s] = "Unlock"
    /\ mutexW' = [mutexW EXCEPT ![p] = IF mutexW[p] = s THEN NoHolder ELSE mutexW[p]]
    /\ spc' = [spc EXCEPT ![s] = "idle"]
    /\ scall' = [scall EXCEPT ![s] = NoCall]
    /\ UNCHANGED <<optionalValue, reason, done, panicked, mutexR, ncalls, passed, cvars, order, avars, rvars>>

\* ------------------------------------------------------------ the callers
\* The goroutines that wait on the promise or inspect it.  They all pass the
\* same context, which user code may cancel at any time.
Callers == {"w1", "w2"}
Waits == {"Await", "Then", "Catch", "Finally"}
\* (Err is Reason under another name.)
Accessors == {"Value", "Reason", "IsFulfilled", "IsRejected", "IsSettled"}
\* "Done" is a receive from the channel Done() returns: <-p.Done()
Methods == Waits \cup {"Done"} \cup Accessors
NoMethod == "none"

\* What a call has read, run and returned so far.
\*   via:   the select case taken ("done", "ctx"), "none" before the select
\*   sawDone, sawCtx: history: p.done, ctx.Done() was closed when the method
\*          was entered
\*   ret:   the returned promise pointer ("p", "nil"), or "values" for the
\*          methods that return values, "none" before the return
\*   val, err, flag: the returned value, error and boolean
\*   cb:    the callback was invoked, onFulfilled with cbValue or onRejected
\*          with cbReason
NoResult ==
    [via |-> "none", sawDone |-> FALSE, sawCtx |-> FALSE, ret |-> "none",
     val |-> Zero, err |-> Nil, flag |-> FALSE, cb |-> FALSE,
     cbValue |-> Zero, cbReason |-> Nil]

\* cancel(): closes ctx.Done() and sets ctx.Err()
Cancel ==
    /\ ~ctxDone
    /\ ctxDone' = TRUE
    /\ UNCHANGED <<pvars, svars, cpc, cm, cres, order, avars, rvars>>

\* Begin, were a waiting method to take the read lock before its select.
BeginHoldingRLock(c, p, m) ==
    /\ cpc[c] = "idle"
    /\ cm' = [cm EXCEPT ![c] = m]
    /\ cpc' = [cpc EXCEPT ![c] =
                  IF m \in Waits THEN "select"
                  ELSE IF m = "Done" THEN "recv" ELSE "RLock"]
    /\ cres' = [cres EXCEPT ![c] =
                   [NoResult EXCEPT !.sawDone = (done[p] = "closed"),
                                    !.sawCtx = (m \in Waits /\ ctxDone)]]
    /\ mutexR' = [mutexR EXCEPT ![p] = IF m \in Waits THEN @ \cup {c} ELSE @]
    /\ UNCHANGED <<optionalValue, reason, done, panicked, mutexW, svars, ctxDone,
                   order, avars, rvars>>

\* A caller enters method m of promise p.
Begin(c, p, m) ==
    /\ cpc[c] = "idle"
    /\ cm' = [cm EXCEPT ![c] = m]
    /\ cpc' = [cpc EXCEPT ![c] =
                  IF m \in Waits THEN "select"
                  ELSE IF m = "Done" THEN "recv" ELSE "RLock"]
    /\ cres' = [cres EXCEPT ![c] =
                   [NoResult EXCEPT !.sawDone = (done[p] = "closed"),
                                    !.sawCtx = (m \in Waits /\ ctxDone)]]
    /\ UNCHANGED <<pvars, svars, ctxDone, order, avars, rvars>>

\* SelectDone, were Finally to run its callback on a fulfilled promise only.
SelectDoneFinallyIfFulfilled(c, p) ==
    /\ cpc[c] = "select"
    /\ done[p] = "closed"
    /\ IF cm[c] = "Finally" /\ ~isFulfilled(p)
         THEN /\ cpc' = [cpc EXCEPT ![c] = "returned"]
              /\ cres' = [cres EXCEPT ![c] = [@ EXCEPT !.via = "done", !.ret = "p"]]
         ELSE /\ cpc' = [cpc EXCEPT ![c] =
                            IF cm[c] = "Finally" THEN "callback" ELSE "RLock"]
              /\ cres' = [cres EXCEPT ![c].via = "done"]
    /\ UNCHANGED <<pvars, svars, ctxDone, cm, order, avars, rvars>>

\* select { case <-p.done: break }
SelectDone(c, p) ==
    /\ cpc[c] = "select"
    /\ done[p] = "closed"
    /\ cpc' = [cpc EXCEPT ![c] = IF cm[c] = "Finally" THEN "callback" ELSE "RLock"]
    /\ cres' = [cres EXCEPT ![c].via = "done"]
    /\ UNCHANGED <<pvars, svars, ctxDone, cm, order, avars, rvars>>

\* SelectCtx, were Await to return a nil error on cancellation.
SelectCtxNilErr(c, p) ==
    /\ cpc[c] = "select"
    /\ ctxDone
    /\ cpc' = [cpc EXCEPT ![c] = "returned"]
    /\ cres' = [cres EXCEPT ![c] =
                   IF cm[c] = "Await"
                     THEN [@ EXCEPT !.via = "ctx", !.ret = "values", !.val = None.v]
                     ELSE [@ EXCEPT !.via = "ctx", !.ret = "nil"]]
    /\ UNCHANGED <<pvars, svars, ctxDone, cm, order, avars, rvars>>

\* SelectCtx, were cancellation to reject the promise with ctx.Err().
SelectCtxRejects(c, p) ==
    /\ cpc[c] = "select"
    /\ ctxDone
    /\ cpc' = [cpc EXCEPT ![c] = "returned"]
    /\ cres' = [cres EXCEPT ![c] =
                   IF cm[c] = "Await"
                     THEN [@ EXCEPT !.via = "ctx", !.ret = "values",
                                    !.val = None.v, !.err = ctxErr]
                     ELSE [@ EXCEPT !.via = "ctx", !.ret = "nil"]]
    /\ reason' = [reason EXCEPT ![p] = IF isSettled(p) THEN @ ELSE ctxErr]
    /\ UNCHANGED <<optionalValue, done, panicked, mutexW, mutexR, svars, ctxDone, cm, order, avars, rvars>>

\* SelectCtx, were Then, Catch and Finally to return p on cancellation.
SelectCtxReturnsP(c, p) ==
    /\ cpc[c] = "select"
    /\ ctxDone
    /\ cpc' = [cpc EXCEPT ![c] = "returned"]
    /\ cres' = [cres EXCEPT ![c] =
                   IF cm[c] = "Await"
                     THEN [@ EXCEPT !.via = "ctx", !.ret = "values",
                                    !.val = None.v, !.err = ctxErr]
                     ELSE [@ EXCEPT !.via = "ctx", !.ret = "p"]]
    /\ UNCHANGED <<pvars, svars, ctxDone, cm, order, avars, rvars>>

\* select { case <-ctx.Done(): ... }
\*   Await: return zero value, ctx.Err();  Then, Catch, Finally: return nil
SelectCtx(c, p) ==
    /\ cpc[c] = "select"
    /\ ctxDone
    /\ cpc' = [cpc EXCEPT ![c] = "returned"]
    /\ cres' = [cres EXCEPT ![c] =
                   IF cm[c] = "Await"
                     THEN [@ EXCEPT !.via = "ctx", !.ret = "values",
                                    !.val = None.v, !.err = ctxErr]
                     ELSE [@ EXCEPT !.via = "ctx", !.ret = "nil"]]
    /\ UNCHANGED <<pvars, svars, ctxDone, cm, order, avars, rvars>>

\* <-p.Done()
RecvDone(c, p) ==
    /\ cpc[c] = "recv"
    /\ done[p] = "closed"
    /\ cpc' = [cpc EXCEPT ![c] = "returned"]
    /\ cres' = [cres EXCEPT ![c] = [@ EXCEPT !.via = "done", !.ret = "values"]]
    /\ UNCHANGED <<pvars, svars, ctxDone, cm, order, avars, rvars>>

\* RLock, were the method to read the fields without p.mutex.RLock().
RLockSkipped(c, p) ==
    /\ cpc[c] = "RLock"
    /\ cpc' = [cpc EXCEPT ![c] = "read"]
    /\ UNCHANGED <<pvars, svars, ctxDone, cm, cres, order, avars, rvars>>

\* p.mutex.RLock()
RLock(c, p) ==
    /\ cpc[c] = "RLock"
    /\ CanRLock(p)
    /\ mutexR' = [mutexR EXCEPT ![p] = @ \cup {c}]
    /\ cpc' = [cpc EXCEPT ![c] = "read"]
    /\ UNCHANGED <<optionalValue, reason, done, panicked, mutexW, svars,
                   ctxDone, cm, cres, order, avars, rvars>>

\* AfterRead, were Await to return a nil error whatever the reason.
AfterReadNoReason(m, o, r, res) ==
    CASE m = "Await" -> [res EXCEPT !.ret = "values", !.val = o.v]
      [] m = "Then" -> IF o.ok THEN [res EXCEPT !.cbValue = o.v]
                               ELSE [res EXCEPT !.ret = "p"]
      [] m = "Catch" -> IF r # Nil THEN [res EXCEPT !.cbReason = r]
                                   ELSE [res EXCEPT !.ret = "p"]
      [] m = "Value" -> [res EXCEPT !.ret = "values", !.val = o.v]
      [] m = "Reason" -> [res EXCEPT !.ret = "values", !.err = r]
      [] m = "IsFulfilled" -> [res EXCEPT !.ret = "values", !.flag = o.ok]
      [] m = "IsRejected" -> [res EXCEPT !.ret = "values", !.flag = (r # Nil)]
      [] m = "IsSettled" -> [res EXCEPT !.ret = "values", !.flag = (o.ok \/ r # Nil)]

\* AfterRead, were Then to run its callback whatever the outcome.
AfterReadThenAlways(m, o, r, res) ==
    CASE m = "Await" -> [res EXCEPT !.ret = "values", !.val = o.v, !.err = r]
      [] m = "Then" -> [res EXCEPT !.cbValue = o.v]
      [] m = "Catch" -> IF r # Nil THEN [res EXCEPT !.cbReason = r]
                                   ELSE [res EXCEPT !.ret = "p"]
      [] m = "Value" -> [res EXCEPT !.ret = "values", !.val = o.v]
      [] m = "Reason" -> [res EXCEPT !.ret = "values", !.err = r]
      [] m = "IsFulfilled" -> [res EXCEPT !.ret = "values", !.flag = o.ok]
      [] m = "IsRejected" -> [res EXCEPT !.ret = "values", !.flag = (r # Nil)]
      [] m = "IsSettled" -> [res EXCEPT !.ret = "values", !.flag = (o.ok \/ r # Nil)]

\* What each method makes of the fields o = p.optionalValue and r = p.reason
\* it read under the read lock.
AfterRead(m, o, r, res) ==
    CASE m = "Await" -> [res EXCEPT !.ret = "values", !.val = o.v, !.err = r]
      [] m = "Then" -> IF o.ok THEN [res EXCEPT !.cbValue = o.v]
                               ELSE [res EXCEPT !.ret = "p"]
      [] m = "Catch" -> IF r # Nil THEN [res EXCEPT !.cbReason = r]
                                   ELSE [res EXCEPT !.ret = "p"]
      [] m = "Value" -> [res EXCEPT !.ret = "values", !.val = o.v]
      [] m = "Reason" -> [res EXCEPT !.ret = "values", !.err = r]
      [] m = "IsFulfilled" -> [res EXCEPT !.ret = "values", !.flag = o.ok]
      [] m = "IsRejected" -> [res EXCEPT !.ret = "values", !.flag = (r # Nil)]
      [] m = "IsSettled" -> [res EXCEPT !.ret = "values", !.flag = (o.ok \/ r # Nil)]

\* o := p.optionalValue; r := p.reason; p.mutex.RUnlock(), and what follows
\* up to the callback or the return.
ReadRUnlock(c, p) ==
    /\ cpc[c] = "read"
    /\ mutexR' = [mutexR EXCEPT ![p] = @ \ {c}]
    /\ cres' = [cres EXCEPT ![c] = AfterRead(cm[c], optionalValue[p], reason[p], @)]
    /\ cpc' = [cpc EXCEPT ![c] = IF cres'[c].ret = "none" THEN "callback" ELSE "returned"]
    /\ UNCHANGED <<optionalValue, reason, done, panicked, mutexW, svars, ctxDone, cm, order, avars, rvars>>

\* onFulfilled(v), onRejected(r), onFinally(); return p
Callback(c, p) ==
    /\ cpc[c] = "callback"
    /\ cres' = [cres EXCEPT ![c] = [@ EXCEPT !.cb = TRUE, !.ret = "p"]]
    /\ cpc' = [cpc EXCEPT ![c] = "returned"]
    /\ UNCHANGED <<pvars, svars, ctxDone, cm, order, avars, rvars>>

\* The caller is done with what the method returned.
Return(c) ==
    /\ cpc[c] = "returned"
    /\ cpc' = [cpc EXCEPT ![c] = "idle"]
    /\ cm' = [cm EXCEPT ![c] = NoMethod]
    /\ cres' = [cres EXCEPT ![c] = NoResult]
    /\ UNCHANGED <<pvars, svars, ctxDone, order, avars, rvars>>

\* ----------------------------------------------------------------- Status
\* type Status int32; const ( Fulfilled Status = iota; Rejected )
Fulfilled == 0
Rejected == 1
MaxInt32 == 2147483647
MinInt32 == (0 - MaxInt32) - 1
\* var statusStrings = [...]string{"fulfilled", "rejected"}
statusStrings == <<"fulfilled", "rejected">>
NoString == ""
\* What indexing out of range does.
IndexPanic == "panic: index out of range"
\* arr[i], Go arrays being indexed from 0.
Index(arr, i) == IF i \in 0 .. (Len(arr) - 1) THEN arr[i + 1] ELSE IndexPanic

\* String, were it to test the upper limit only.
StringUpperOnly(s) ==
    IF s > Rejected THEN "unknown" ELSE Index(statusStrings, s)

\* func (s Status) String() string
String(s) ==
    IF s < Fulfilled \/ s > Rejected THEN "unknown" ELSE Index(statusStrings, s)

\* The Status values rendered: those within StatusSpan of zero and the two
\* ends of int32.
StatusSpan == 60
StatusInputs == ((0 - StatusSpan) .. StatusSpan) \cup {MinInt32, MaxInt32}

\* User code calls status.String().
Render ==
    /\ str = NoString
    /\ str' = String(status)
    /\ UNCHANGED <<pvars, svars, cvars, order, avars, status>>

\* No Status is rendered.
NoRendering ==
    /\ status = Fulfilled
    /\ str = NoString

\* No aggregator is called.
NoAggregator ==
    /\ akind = "none"
    /\ promises = <<>>
    /\ results = <<>>
    /\ wg = 0
    /\ spawned = 0

Init ==
    /\ NewPromise
    /\ spc = [s \in Settlers |-> "idle"]
    /\ scall = [s \in Settlers |-> NoCall]
    /\ ncalls = [s \in Settlers |-> 0]
    /\ passed = {}
    /\ ctxDone = FALSE
    /\ cpc = [c \in Callers |-> "idle"]
    /\ cm = [c \in Callers |-> NoMethod]
    /\ cres = [c \in Callers |-> NoResult]
    /\ order = [p \in Promises |-> {}]
    /\ NoAggregator
    /\ NoRendering

\* The goroutines settling promise p.
Settle(p) ==
    \/ \E s \in Settlers, c \in Calls : Call(s, p, c)
    \/ \E s \in Settlers : Lock(s, p)
    \/ \E s \in Settlers : CheckSettled(s, p)
    \/ \E s \in Settlers : Write(s, p)
    \/ \E s \in Settlers : Close(s, p)
    \/ \E s \in Settlers : Unlock(s, p)

\* The callers in C waiting on promise p with Await.
UseAwait(C, p) ==
    \/ \E c \in C : Begin(c, p, "Await")
    \/ \E c \in C : SelectDone(c, p)
    \/ \E c \in C : SelectCtx(c, p)
    \/ \E c \in C : RLock(c, p)
    \/ \E c \in C : ReadRUnlock(c, p)
    \/ \E c \in C : Return(c)

\* The callers in C receiving from Done() and calling the accessors of p.
UseInspect(C, p) ==
    \/ \E c \in C, m \in {"Done"} \cup Accessors : Begin(c, p, m)
    \/ \E c \in C : RecvDone(c, p)
    \/ \E c \in C : RLock(c, p)
    \/ \E c \in C : ReadRUnlock(c, p)
    \/ \E c \in C : Return(c)

\* The callers in C running any method of p.
UseAny(C, p) ==
    \/ \E c \in C, m \in Methods : Begin(c, p, m)
    \/ \E c \in C : SelectDone(c, p)
    \/ \E c \in C : SelectCtx(c, p)
    \/ \E c \in C : RecvDone(c, p)
    \/ \E c \in C : RLock(c, p)
    \/ \E c \in C : ReadRUnlock(c, p)
    \/ \E c \in C : Callback(c, p)
    \/ \E c \in C : Return(c)

vars == <<pvars, svars, cvars, order, avars, rvars>>

\* Settlers racing on the promise while two goroutines wait on it with Await
\* under a context that may be canceled.
Next == \E p \in Promises : Settle(p) \/ Cancel \/ UseAwait(Callers, p)
Spec == Init /\ [][Next]_vars

\* Settlers racing on the promise while two goroutines receive from Done()
\* and call the accessors.
NextInspect == \E p \in Promises : Settle(p) \/ UseInspect(Callers, p)
SpecInspect == Init /\ [][NextInspect]_vars

\* Settlers racing on the promise while one goroutine runs any of the
\* methods, under a context that may be canceled.
NextAny == \E p \in Promises : Settle(p) \/ Cancel \/ UseAny({"w1"}, p)
SpecAny == Init /\ [][NextAny]_vars

\* The callers in C each waiting once on promise p, with Await, Then, Catch
\* or Finally, under a context nobody cancels.
UseWait(C, p) ==
    \/ \E c \in C, m \in Waits : Begin(c, p, m)
    \/ \E c \in C : SelectDone(c, p)
    \/ \E c \in C : RLock(c, p)
    \/ \E c \in C : ReadRUnlock(c, p)
    \/ \E c \in C : Callback(c, p)

\* The steps of a call of settler s once user code made it.
Settling(s, p) ==
    Lock(s, p) \/ CheckSettled(s, p) \/ Write(s, p) \/ Close(s, p) \/ Unlock(s, p)
\* The steps of a method call of caller c once user code made it.
Waiting(c, p) ==
    SelectDone(c, p) \/ RLock(c, p) \/ ReadRUnlock(c, p) \/ Callback(c, p)

\* The goroutines in S settling promise p.
SettleBy(S, p) ==
    \/ \E s \in S, c \in Calls : Call(s, p, c)
    \/ \E s \in S : Lock(s, p)
    \/ \E s \in S : CheckSettled(s, p)
    \/ \E s \in S : Write(s, p)
    \/ \E s \in S : Close(s, p)
    \/ \E s \in S : Unlock(s, p)

\* The executor calling resolve and reject while two goroutines wait on the
\* promise with any of the waiting methods, under fair scheduling: a
\* goroutine inside a call that can take a step eventually does; user code
\* need not make any call.
NextWait == \E p \in Promises : SettleBy({"executor"}, p) \/ UseWait(Callers, p)
FairWait ==
    /\ Init /\ [][NextWait]_vars
    /\ \A p \in Promises :
          /\ WF_spc(Settling("executor", p))
          /\ \A c \in Callers : WF_cpc(Waiting(c, p))

\* ----------------------------------------------------- All and AllSettled
\* SettledResult[T]{Status, Value, Reason}
SettledResult(st, value, r) == [Status |-> st, Value |-> value, Reason |-> r]

\* The promises handed to the aggregator, in argument order, and the promise
\* it returns.
Inputs == <<"i1", "i2">>
Parent == "all"
AggPromises == {Inputs[i] : i \in DOMAIN Inputs} \cup {Parent}
\* The goroutines: the executor of each input promise, the executor New
\* starts for the parent, and the child goroutine its loop starts per input.
InputExecutor == <<"x1", "x2">>
AggExecutor == "agg"
Child == <<"g1", "g2">>
Children == {Child[i] : i \in DOMAIN Child}
AggSettlers == {InputExecutor[i] : i \in DOMAIN Inputs} \cup {AggExecutor} \cup Children
\* The slice header resolve(results) stores: it shares the array the child
\* goroutines write to.
ResultsRef == "results"

\* The promise whose closures goroutine s holds.
Target(s) ==
    IF \E i \in DOMAIN Inputs : s = InputExecutor[i]
      THEN Inputs[CHOOSE i \in DOMAIN Inputs : s = InputExecutor[i]]
      ELSE Parent

\* The executor of input promise i calls resolve(arg) or reject(arg).
Executor(i, c) ==
    /\ spc[InputExecutor[i]] = "idle"
    /\ ncalls[InputExecutor[i]] = 0
    /\ spc' = [spc EXCEPT ![InputExecutor[i]] = "Lock"]
    /\ scall' = [scall EXCEPT ![InputExecutor[i]] = c]
    /\ ncalls' = [ncalls EXCEPT ![InputExecutor[i]] = 1]
    /\ UNCHANGED <<pvars, passed, cvars, order, avars, rvars>>

\* Start, were the executor to add one more than len(promises) to wg.
StartOneMore ==
    /\ spc[AggExecutor] = "Add"
    /\ wg' = Len(promises) + 1
    /\ results' = [i \in DOMAIN promises |->
                      IF akind = "All" THEN Zero
                                       ELSE SettledResult(Fulfilled, Zero, Nil)]
    /\ spc' = [spc EXCEPT ![AggExecutor] = "range"]
    /\ UNCHANGED <<pvars, scall, ncalls, passed, cvars, order, akind, promises,
                   spawned, rvars>>

\* wg.Add(len(promises)); results := make([]T, len(promises))
\* The zero SettledResult has Status 0, which is Fulfilled.
Start ==
    /\ spc[AggExecutor] = "Add"
    /\ wg' = Len(promises)
    /\ results' = [i \in DOMAIN promises |->
                      IF akind = "All" THEN Zero
                                       ELSE SettledResult(Fulfilled, Zero, Nil)]
    /\ spc' = [spc EXCEPT ![AggExecutor] = "range"]
    /\ UNCHANGED <<pvars, scall, ncalls, passed, cvars, order, akind, promises, spawned, rvars>>

\* for i, promise := range promises { go func(i, promise) {...}(i, promise) }
\* The child goroutine starts, calls promise.Await(ctx) and is at its select.
Go ==
    /\ spc[AggExecutor] = "range"
    /\ spawned < Len(promises)
    /\ spawned' = spawned + 1
    /\ cpc' = [cpc EXCEPT ![Child[spawned + 1]] = "select"]
    /\ cm' = [cm EXCEPT ![Child[spawned + 1]] = "Await"]
    /\ UNCHANGED <<pvars, svars, ctxDone, cres, order, akind, promises, results, wg, rvars>>

\* Wait, were the executor to call resolve(results) without wg.Wait().
WaitSkipped ==
    /\ spc[AggExecutor] = "range"
    /\ spawned = Len(promises)
    /\ spc' = [spc EXCEPT ![AggExecutor] = "Lock"]
    /\ scall' = [scall EXCEPT ![AggExecutor] = [fn |-> "resolve", arg |-> ResultsRef]]
    /\ ncalls' = [ncalls EXCEPT ![AggExecutor] = 1]
    /\ UNCHANGED <<pvars, passed, cvars, order, avars, rvars>>

\* wg.Wait(); resolve(results)
Wait ==
    /\ spc[AggExecutor] = "range"
    /\ spawned = Len(promises)
    /\ wg = 0
    /\ spc' = [spc EXCEPT ![AggExecutor] = "Lock"]
    /\ scall' = [scall EXCEPT ![AggExecutor] = [fn |-> "resolve", arg |-> ResultsRef]]
    /\ ncalls' = [ncalls EXCEPT ![AggExecutor] = 1]
    /\ UNCHANGED <<pvars, passed, cvars, order, avars, rvars>>

\* AllChild, were the child goroutine to store v at index 1 whatever i is.
AllChildFirstIndex(i) ==
    /\ akind = "All"
    /\ cpc[Child[i]] = "returned"
    /\ IF cres[Child[i]].err # Nil
         THEN /\ cpc' = [cpc EXCEPT ![Child[i]] = "reject"]
              /\ spc' = [spc EXCEPT ![Child[i]] = "Lock"]
              /\ scall' = [scall EXCEPT ![Child[i]] =
                              [fn |-> "reject", arg |-> cres[Child[i]].err]]
              /\ ncalls' = [ncalls EXCEPT ![Child[i]] = 1]
              /\ UNCHANGED results
         ELSE /\ results' = [results EXCEPT ![1] = cres[Child[i]].val]
              /\ cpc' = [cpc EXCEPT ![Child[i]] = "Done"]
              /\ UNCHANGED <<spc, scall, ncalls>>
    /\ UNCHANGED <<pvars, passed, ctxDone, cm, cres, order, akind, promises, wg, spawned, rvars>>

\* AllChild, were the child goroutine to drop the error Await returns.
AllChildErrDropped(i) ==
    /\ akind = "All"
    /\ cpc[Child[i]] = "returned"
    /\ results' = [results EXCEPT ![i] = cres[Child[i]].val]
    /\ cpc' = [cpc EXCEPT ![Child[i]] = "Done"]
    /\ UNCHANGED <<pvars, svars, ctxDone, cm, cres, order, akind, promises, wg, spawned, rvars>>

\* All's child goroutine, after v, err := promise.Await(ctx):
\*   if err != nil { reject(err); return };  results[i] = v
AllChild(i) ==
    /\ akind = "All"
    /\ cpc[Child[i]] = "returned"
    /\ IF cres[Child[i]].err # Nil
         THEN /\ cpc' = [cpc EXCEPT ![Child[i]] = "reject"]
              /\ spc' = [spc EXCEPT ![Child[i]] = "Lock"]
              /\ scall' = [scall EXCEPT ![Child[i]] =
                              [fn |-> "reject", arg |-> cres[Child[i]].err]]
              /\ ncalls' = [ncalls EXCEPT ![Child[i]] = 1]
              /\ UNCHANGED results
         ELSE /\ results' = [results EXCEPT ![i] = cres[Child[i]].val]
              /\ cpc' = [cpc EXCEPT ![Child[i]] = "Done"]
              /\ UNCHANGED <<spc, scall, ncalls>>
    /\ UNCHANGED <<pvars, passed, ctxDone, cm, cres, order, akind, promises, wg, spawned, rvars>>

\* AllSettledChild, were the child goroutine to reject the parent on error.
AllSettledChildRejects(i) ==
    /\ akind = "AllSettled"
    /\ cpc[Child[i]] = "returned"
    /\ IF cres[Child[i]].err # Nil
         THEN /\ cpc' = [cpc EXCEPT ![Child[i]] = "reject"]
              /\ spc' = [spc EXCEPT ![Child[i]] = "Lock"]
              /\ scall' = [scall EXCEPT ![Child[i]] =
                              [fn |-> "reject", arg |-> cres[Child[i]].err]]
              /\ ncalls' = [ncalls EXCEPT ![Child[i]] = 1]
              /\ UNCHANGED results
         ELSE /\ results' = [results EXCEPT ![i] =
                                SettledResult(Fulfilled, cres[Child[i]].val, Nil)]
              /\ cpc' = [cpc EXCEPT ![Child[i]] = "Done"]
              /\ UNCHANGED <<spc, scall, ncalls>>
    /\ UNCHANGED <<pvars, passed, ctxDone, cm, cres, order, akind, promises, wg, spawned, rvars>>

\* AllSettledChild, were the child goroutine to keep the value Await returns
\* beside the error.
AllSettledChildStatusOnly(i) ==
    /\ akind = "AllSettled"
    /\ cpc[Child[i]] = "returned"
    /\ results' = [results EXCEPT ![i] =
                      SettledResult(Fulfilled, cres[Child[i]].val, cres[Child[i]].err)]
    /\ cpc' = [cpc EXCEPT ![Child[i]] = "Done"]
    /\ UNCHANGED <<pvars, svars, ctxDone, cm, cres, order, akind, promises, wg, spawned, rvars>>

\* AllSettledChild, were the child goroutine to return on error without
\* storing a result.
AllSettledChildSkipsError(i) ==
    /\ akind = "AllSettled"
    /\ cpc[Child[i]] = "returned"
    /\ results' = [results EXCEPT ![i] =
                      IF cres[Child[i]].err # Nil
                        THEN @
                        ELSE SettledResult(Fulfilled, cres[Child[i]].val, Nil)]
    /\ cpc' = [cpc EXCEPT ![Child[i]] = "Done"]
    /\ UNCHANGED <<pvars, svars, ctxDone, cm, cres, order, akind, promises, wg, spawned, rvars>>

\* AllSettled's child goroutine, after v, err := promise.Await(ctx):
\*   if err != nil { results[i] = SettledResult{Status: Rejected, Reason: err}; return }
\*   results[i] = SettledResult{Status: Fulfilled, Value: v}
AllSettledChild(i) ==
    /\ akind = "AllSettled"
    /\ cpc[Child[i]] = "returned"
    /\ results' = [results EXCEPT ![i] =
                      IF cres[Child[i]].err # Nil
                        THEN SettledResult(Rejected, Zero, cres[Child[i]].err)
                        ELSE SettledResult(Fulfilled, cres[Child[i]].val, Nil)]
    /\ cpc' = [cpc EXCEPT ![Child[i]] = "Done"]
    /\ UNCHANGED <<pvars, svars, ctxDone, cm, cres, order, akind, promises, wg, spawned, rvars>>

\* defer wg.Done(): the child goroutine ends, after reject returned or after
\* it stored its result.
WgDone(i) ==
    /\ \/ cpc[Child[i]] = "Done"
       \/ cpc[Child[i]] = "reject" /\ spc[Child[i]] = "idle"
    /\ wg' = wg - 1
    /\ cpc' = [cpc EXCEPT ![Child[i]] = "exited"]
    /\ UNCHANGED <<pvars, svars, ctxDone, cm, cres, order, akind, promises, results, spawned, rvars>>

\* The input promises were built by New, and All or AllSettled was called on
\* them: its parent promise is fresh and its executor is about to run.
InitAgg ==
    /\ optionalValue = [p \in AggPromises |-> None]
    /\ reason = [p \in AggPromises |-> Nil]
    /\ done = [p \in AggPromises |-> "open"]
    /\ panicked = FALSE
    /\ mutexW = [p \in AggPromises |-> NoHolder]
    /\ mutexR = [p \in AggPromises |-> {}]
    /\ spc = [s \in AggSettlers |-> IF s = AggExecutor THEN "Add" ELSE "idle"]
    /\ scall = [s \in AggSettlers |-> NoCall]
    /\ ncalls = [s \in AggSettlers |-> 0]
    /\ passed = {}
    /\ ctxDone = FALSE
    /\ cpc = [c \in Children |-> "unborn"]
    /\ cm = [c \in Children |-> NoMethod]
    /\ cres = [c \in Children |-> NoResult]
    /\ order = [p \in AggPromises |-> {}]
    /\ akind \in {"All", "AllSettled"}
    /\ promises = Inputs
    /\ results = <<>>
    /\ wg = 0
    /\ spawned = 0
    /\ NoRendering

\* What user code does around the aggregator: the executors of the input
\* promises call resolve or reject, and the context is canceled.
User ==
    \/ \E i \in DOMAIN Inputs, c \in Calls : Executor(i, c)
    \/ Cancel

\* What the goroutines do once started: the closures of the input promises
\* and of the parent, the parent's executor, and its child goroutines.
Run ==
    \/ \E s \in AggSettlers : Lock(s, Target(s))
    \/ \E s \in AggSettlers : CheckSettled(s, Target(s))
    \/ \E s \in AggSettlers : Write(s, Target(s))
    \/ \E s \in AggSettlers : Close(s, Target(s))
    \/ \E s \in AggSettlers : Unlock(s, Target(s))
    \/ Start
    \/ Go
    \/ Wait
    \/ \E i \in DOMAIN Inputs : SelectDone(Child[i], Inputs[i])
    \/ \E i \in DOMAIN Inputs : SelectCtx(Child[i], Inputs[i])
    \/ \E i \in DOMAIN Inputs : RLock(Child[i], Inputs[i])
    \/ \E i \in DOMAIN Inputs : ReadRUnlock(Child[i], Inputs[i])
    \/ \E i \in DOMAIN Inputs : AllChild(i)
    \/ \E i \in DOMAIN Inputs : AllSettledChild(i)
    \/ \E i \in DOMAIN Inputs : WgDone(i)

\* All or AllSettled over two promises that user code settles, or not, under
\* a context that may be canceled.
NextAgg == User \/ Run
SpecAgg == InitAgg /\ [][NextAgg]_vars
\* The same under fair scheduling: a goroutine that can take a step
\* eventually does; user code need neither settle a promise nor cancel.
FairAgg == InitAgg /\ [][NextAgg]_vars /\ WF_vars(Run)

\* ------------------------------------------------------------ Status.String
\* User code holds some Status value and renders it once.
InitString ==
    /\ NewPromise
    /\ spc = [s \in Settlers |-> "idle"]
    /\ scall = [s \in Settlers |-> NoCall]
    /\ ncalls = [s \in Settlers |-> 0]
    /\ passed = {}
    /\ ctxDone = FALSE
    /\ cpc = [c \in Callers |-> "idle"]
    /\ cm = [c \in Callers |-> NoMethod]
    /\ cres = [c \in Callers |-> NoResult]
    /\ order = [p \in Promises |-> {}]
    /\ NoAggregator
    /\ status \in StatusInputs
    /\ str = NoString
NextString == Render
SpecString == InitString /\ [][NextString]_vars

\* ------------------------------------------------------- no input promises
\* All or AllSettled was called with no promises: its parent promise is
\* fresh and its executor is about to run, while two goroutines are about
\* to wait on the parent.
InitEmpty ==
    /\ optionalValue = [p \in {Parent} |-> None]
    /\ reason = [p \in {Parent} |-> Nil]
    /\ done = [p \in {Parent} |-> "open"]
    /\ panicked = FALSE
    /\ mutexW = [p \in {Parent} |-> NoHolder]
    /\ mutexR = [p \in {Parent} |-> {}]
    /\ spc = [s \in {AggExecutor} |-> "Add"]
    /\ scall = [s \in {AggExecutor} |-> NoCall]
    /\ ncalls = [s \in {AggExecutor} |-> 0]
    /\ passed = {}
    /\ ctxDone \in BOOLEAN
    /\ cpc = [c \in Callers |-> "idle"]
    /\ cm = [c \in Callers |-> NoMethod]
    /\ cres = [c \in Callers |-> NoResult]
    /\ order = [p \in {Parent} |-> {}]
    /\ akind \in {"All", "AllSettled"}
    /\ promises = <<>>
    /\ results = <<>>
    /\ wg = 0
    /\ spawned = 0
    /\ NoRendering

\* The executor of the parent: its range loop has nothing to start.
RunEmpty ==
    \/ Start
    \/ Wait
    \/ Settling(AggExecutor, Parent)

\* All or AllSettled over no promises, under a context canceled before the
\* call, after it or never, and under fair scheduling.
NextEmpty == RunEmpty \/ Cancel \/ UseAwait(Callers, Parent)
FairEmpty ==
    /\ InitEmpty /\ [][NextEmpty]_vars
    /\ WF_spc(RunEmpty)
    /\ \A c \in Callers : WF_cpc(Waiting(c, Parent))

\* =================================================================== claims
\* The outcome a call asks for: the fields of a promise settled by it.
Requested(c) ==
    IF c.fn = "resolve"
      THEN [value |-> Some(c.arg), reason |-> Nil]
      ELSE [value |-> None, reason |-> IF c.arg = Nil THEN errNilReason ELSE c.arg]

\* The outcome the promise holds.
Outcome(p) == [value |-> optionalValue[p], reason |-> reason[p]]

\* The settler s is in a call that found the promise settled: the no-op path.
NoOpCall(s, p) ==
    /\ spc[s] \in {"isSettled", "Unlock"}
    /\ isSettled(p)
    /\ ~\E w \in passed : w.by = s /\ w.nth = ncalls[s]

\* The settler s has returned from at least one call.
HasReturned(s) == ncalls[s] >= 2 \/ (ncalls[s] = 1 /\ spc[s] = "idle")

\* ------------------------------------------------------------------------
\* C1  Single assignment: once the promise is fulfilled or rejected, no step
\* of any interleaving of resolve and reject calls changes optionalValue or
\* reason again.
C1_SingleAssignment ==
    [][\A p \in Promises :
          isSettled(p) =>
              /\ optionalValue'[p] = optionalValue[p]
              /\ reason'[p] = reason[p]]_vars

\* A call with another outcome has run its check on the settled promise.
C1_Witness ==
    \E p \in Promises, s \in Settlers :
        /\ NoOpCall(s, p)
        /\ spc[s] = "Unlock"
        /\ \E w \in passed : w.call # scall[s]

\* ------------------------------------------------------------------------
\* C2  Exactly-once signal: at most one call gets past the isSettled check,
\* no close of the closed channel (a panic) happens, and the channel, once
\* closed, stays closed.
C2_ExactlyOnceSignal ==
    /\ [](Cardinality(passed) <= 1 /\ ~panicked)
    /\ [][\A p \in Promises : done[p] = "closed" => done'[p] = "closed"]_done

\* Two goroutines are in a call at once: one has closed the channel and
\* still holds the lock the other is waiting for.
C2_Witness ==
    \E p \in Promises, s, t \in Settlers :
        /\ s # t
        /\ done[p] = "closed"
        /\ spc[s] = "Unlock" /\ \E w \in passed : w.by = s
        /\ spc[t] = "Lock"

\* ------------------------------------------------------------------------
\* C3  Signal/state coherence, as the public operations show it: whenever
\* no settler holds the write lock, done is closed exactly when the promise
\* is settled, and done is never closed on a pending promise.  A receive
\* from Done() returns only on a settled promise; an accessor entered after
\* done was closed returns the terminal outcome (IsSettled is true, Value,
\* Reason, IsFulfilled and IsRejected are those of the winning call); and an
\* accessor that returned a settled view implies that done is closed.
C3_Coherence ==
    \A p \in Promises :
        /\ done[p] = "closed" => isSettled(p)
        /\ mutexW[p] = NoHolder => (isSettled(p) => done[p] = "closed")
        /\ \A c \in Callers :
              cpc[c] = "returned" =>
                  /\ cm[c] = "Done" => isSettled(p)
                  /\ (cm[c] \in Accessors /\ cres[c].sawDone) =>
                        \E w \in passed :
                            LET o == Requested(w.call) IN
                            /\ cm[c] = "IsSettled" => cres[c].flag
                            /\ cm[c] = "IsFulfilled" => cres[c].flag = o.value.ok
                            /\ cm[c] = "IsRejected" => cres[c].flag = (o.reason # Nil)
                            /\ cm[c] = "Value" => cres[c].val = o.value.v
                            /\ cm[c] = "Reason" => cres[c].err = o.reason
                  /\ (cm[c] \in Accessors /\ (cres[c].flag \/ cres[c].err # Nil)) =>
                        done[p] = "closed"

\* After done was closed, one caller has read the rejection reason and
\* another IsFulfilled = FALSE.
C3_Witness ==
    \E c, d \in Callers :
        /\ cpc[c] = "returned" /\ cm[c] = "Reason" /\ cres[c].sawDone
        /\ cres[c].err \in Reasons
        /\ cpc[d] = "returned" /\ cm[d] = "IsFulfilled" /\ cres[d].sawDone
        /\ ~cres[d].flag

\* ------------------------------------------------------------------------
\* C4  Idempotent settlement attempts: a call that finds the promise settled
\* never blocks (its next statement is always enabled), and its steps leave
\* optionalValue, reason and done unchanged and raise no panic.  When one
\* goroutine alone makes the calls, the promise holds the outcome of its
\* first call as soon as that call has returned, whatever it calls next.
C4_Idempotent ==
    /\ [](\A p \in Promises, s \in Settlers :
            /\ NoOpCall(s, p) => ENABLED (CheckSettled(s, p) \/ Unlock(s, p))
            /\ (HasReturned(s) /\ \A t \in Settlers \ {s} : ncalls[t] = 0) =>
                  /\ \A w \in passed : w.by = s /\ w.nth = 1
                  /\ \E w \in passed : Outcome(p) = Requested(w.call))
    /\ [][\A p \in Promises, s \in Settlers :
            (NoOpCall(s, p) /\ spc'[s] # spc[s]) =>
                /\ optionalValue'[p] = optionalValue[p]
                /\ reason'[p] = reason[p]
                /\ done'[p] = done[p]
                /\ ~panicked']_vars

\* The executor alone has called resolve(0) and then resolve(1), and the
\* second call is returning.
C4_Witness ==
    \E p \in Promises, s \in Settlers :
        /\ \A t \in Settlers \ {s} : ncalls[t] = 0
        /\ ncalls[s] = 2 /\ NoOpCall(s, p) /\ spc[s] = "Unlock"
        /\ scall[s] = [fn |-> "resolve", arg |-> 1]
        /\ optionalValue[p] = Some(0)

\* An Await of c that has returned through the case <-p.done.
AwaitedDone(c) == cm[c] = "Await" /\ cpc[c] = "returned" /\ cres[c].via = "done"
\* An Await of c that has returned through the case <-ctx.Done().
AwaitedCtx(c) == cm[c] = "Await" /\ cpc[c] = "returned" /\ cres[c].via = "ctx"

\* ------------------------------------------------------------------------
\* C5  Single settlement under races: as soon as one of the racing calls has
\* returned, exactly one call has won; the outcome of a settled promise is
\* the one its winning call asked for; and every Await that returned through
\* the done case, however late, returned that outcome, so that all waiters
\* agree.
C5_SingleSettlement ==
    \A p \in Promises :
        /\ Cardinality(passed) <= 1
        /\ (\E s \in Settlers : HasReturned(s)) => Cardinality(passed) = 1
        /\ isSettled(p) =>
              \E w \in passed : w.call \in Calls /\ Outcome(p) = Requested(w.call)
        /\ \A c \in Callers :
              AwaitedDone(c) =>
                  /\ isSettled(p)
                  /\ cres[c].val = Outcome(p).value.v
                  /\ cres[c].err = Outcome(p).reason
        /\ \A c, d \in Callers :
              (AwaitedDone(c) /\ AwaitedDone(d)) =>
                  cres[c].val = cres[d].val /\ cres[c].err = cres[d].err

\* Two calls have raced (both goroutines have returned from one) and two
\* waiters have returned from Await with the value 1.
C5_Witness ==
    /\ \A s \in Settlers : HasReturned(s)
    /\ \A c \in Callers : AwaitedDone(c) /\ cres[c].val = 1 /\ cres[c].err = Nil

\* ------------------------------------------------------------------------
\* C6  Outcome exclusivity: the promise is Pending (no value, nil reason),
\* Fulfilled (a value, nil reason) or Rejected (no value, non-nil reason),
\* never a value together with a reason; once the winning call has written,
\* the promise is Fulfilled if that call was resolve and Rejected, with a
\* non-nil reason, if it was reject; it is Pending until then.
C6_Exclusive ==
    \A p \in Promises :
        LET pending == optionalValue[p] = None /\ reason[p] = Nil
            fulfilled == optionalValue[p].ok /\ reason[p] = Nil
            rejected == optionalValue[p] = None /\ reason[p] # Nil
            written == \E w \in passed :
                          ~(spc[w.by] = "write" /\ ncalls[w.by] = w.nth)
        IN  /\ pending \/ fulfilled \/ rejected
            /\ ~(optionalValue[p].ok /\ reason[p] # Nil)
            /\ ~written => pending
            /\ written =>
                  \A w \in passed :
                      /\ w.call.fn = "resolve" => fulfilled
                      /\ w.call.fn = "reject" => rejected
            /\ done[p] = "closed" => ~pending

\* reject(nil) has won against resolve(0) and has closed the channel.
C6_Witness ==
    \E p \in Promises :
        /\ done[p] = "closed"
        /\ \E w \in passed : w.call = [fn |-> "reject", arg |-> Nil]
        /\ \E s \in Settlers : NoOpCall(s, p) /\ scall[s] = [fn |-> "resolve", arg |-> 0]

\* ------------------------------------------------------------------------
\* C7  Await result on settlement: an Await that returned through the done
\* case returned (v, nil) if the winning call was resolve(v), and the zero
\* value with the non-nil reason r if it was reject(r) (errNilReason for
\* reject(nil)).  An Await waiting at its select on a settled promise can take
\* the done case at once, and while the context is not canceled it can take
\* no other; the read that follows is never blocked once the lock is held.
C7_AwaitResult ==
    \A p \in Promises, c \in Callers :
        /\ AwaitedDone(c) =>
              \E w \in passed :
                  IF w.call.fn = "resolve"
                    THEN cres[c].val = w.call.arg /\ cres[c].err = Nil
                    ELSE /\ cres[c].val = Zero
                         /\ cres[c].err # Nil
                         /\ cres[c].err = IF w.call.arg = Nil THEN errNilReason
                                                              ELSE w.call.arg
        /\ (cm[c] = "Await" /\ cpc[c] = "select" /\ done[p] = "closed") =>
              /\ ENABLED SelectDone(c, p)
              /\ ~ctxDone => ~ENABLED SelectCtx(c, p)
        /\ (cm[c] = "Await" /\ cpc[c] = "RLock" /\ mutexW[p] = NoHolder) =>
              ENABLED RLock(c, p)
        /\ (cm[c] = "Await" /\ cpc[c] = "read") => ENABLED ReadRUnlock(c, p)

\* An Await entered after the promise was rejected, under a context that was
\* not canceled, has returned the zero value and the reason.
C7_Witness ==
    \E c \in Callers :
        /\ AwaitedDone(c) /\ cres[c].sawDone /\ ~ctxDone
        /\ cres[c].val = Zero /\ cres[c].err \in Reasons

\* ------------------------------------------------------------------------
\* C8  Cancellation precedence: an Await waiting at its select under a
\* canceled context can take the ctx case at once, and on a pending promise
\* it can take no other; an Await that returned through the ctx case returned
\* the zero value and the context's non-nil error; and an Await that has
\* returned while the promise is still pending returned through the ctx case.
C8_CancelPrecedence ==
    \A p \in Promises, c \in Callers :
        /\ (cm[c] = "Await" /\ cpc[c] = "select" /\ ctxDone) =>
              /\ ENABLED SelectCtx(c, p)
              /\ done[p] = "open" => ~ENABLED SelectDone(c, p)
        /\ AwaitedCtx(c) =>
              cres[c].val = Zero /\ cres[c].err = ctxErr /\ cres[c].err # Nil
        /\ (cm[c] = "Await" /\ cpc[c] = "returned" /\ done[p] = "open") =>
              AwaitedCtx(c)

\* An Await has returned the context's error while the promise is pending
\* and no call was made on it.
C8_Witness ==
    \E p \in Promises, c \in Callers :
        /\ AwaitedCtx(c) /\ cres[c].err = ctxErr
        /\ ~isSettled(p) /\ done[p] = "open" /\ TotalCalls = 0

\* ------------------------------------------------------------------------
\* C9  Settlement takes priority at entry: an Await entered when the promise
\* was already settled and the context already canceled returns through the
\* done case, with the promise's value and reason and not the context's
\* error.
C9_SettlementPriority ==
    \A p \in Promises, c \in Callers :
        (/\ cm[c] = "Await" /\ cpc[c] = "returned"
         /\ cres[c].sawDone /\ cres[c].sawCtx) =>
            /\ cres[c].via = "done"
            /\ cres[c].val = Outcome(p).value.v
            /\ cres[c].err = Outcome(p).reason

\* ------------------------------------------------------------------------
\* C10  Observation never settles: every step that changes optionalValue,
\* reason or done of the promise is the write or the close of a resolve or
\* reject call in progress; no step of Await, Then, Catch, Finally, a receive
\* from Done(), an accessor or the context's cancellation changes them.  (All
\* and AllSettled reach an input promise through its Await alone.)  So a
\* promise on which no call was made is pending with its channel open.
C10_ObservationNeverSettles ==
    /\ [](\A p \in Promises :
            TotalCalls = 0 => (~isSettled(p) /\ done[p] = "open"))
    /\ [][\A p \in Promises :
            (\/ optionalValue'[p] # optionalValue[p]
             \/ reason'[p] # reason[p]
             \/ done'[p] # done[p]) =>
                \E s \in Settlers :
                    /\ scall[s] \in Calls
                    /\ spc[s] \in {"write", "close"}
                    /\ spc'[s] # spc[s]
                    /\ cpc' = cpc /\ ctxDone' = ctxDone]_vars

\* A wait entered under the canceled context while the promise was pending
\* has ended with the promise's value: the promise settled after the
\* cancellation and the waiter saw it.
C10_Witness ==
    \E p \in Promises, c \in Callers :
        /\ ctxDone
        /\ AwaitedDone(c) /\ cres[c].sawCtx /\ ~cres[c].sawDone
        /\ isFulfilled(p) /\ cres[c].val = optionalValue[p].v

\* A call of Then, Catch or Finally by c.
CallbackWait(c) == cm[c] \in {"Then", "Catch", "Finally"}

\* ------------------------------------------------------------------------
\* C11  Abandoned callback wait: a Then, Catch or Finally waiting at its
\* select under a canceled context can take the ctx case at once, and on a
\* pending promise it can take no other; a call that took the ctx case has
\* returned nil without invoking its callback; a call that has returned while
\* the promise is pending returned nil; and nil is returned in no other case,
\* so that nil tells an abandoned wait from a completed one.
C11_AbandonedWait ==
    \A p \in Promises, c \in Callers :
        CallbackWait(c) =>
            /\ (cpc[c] = "select" /\ ctxDone) =>
                  /\ ENABLED SelectCtx(c, p)
                  /\ done[p] = "open" => ~ENABLED SelectDone(c, p)
            /\ cres[c].via = "ctx" =>
                  cpc[c] = "returned" /\ cres[c].ret = "nil" /\ ~cres[c].cb
            /\ (cpc[c] = "returned" /\ done[p] = "open") =>
                  cres[c].ret = "nil" /\ ~cres[c].cb
            /\ cres[c].ret = "nil" => cres[c].via = "ctx"
            /\ cres[c].cb => cres[c].via = "done"

\* A Then entered on the pending promise has returned nil, its callback not
\* invoked, and the promise is still pending.
C11_Witness ==
    \E p \in Promises, c \in Callers :
        /\ cm[c] = "Then" /\ cpc[c] = "returned" /\ cres[c].ret = "nil"
        /\ ~cres[c].cb /\ ~cres[c].sawDone
        /\ ~isSettled(p) /\ done[p] = "open"

\* ------------------------------------------------------------------------
\* C12  Then/Catch branch selection: a Then that returned after the done case
\* returned p and invoked onFulfilled, with the fulfilled value, exactly when
\* the promise is fulfilled; a Catch that returned after the done case
\* returned p and invoked onRejected, with the reason, exactly when the
\* promise is rejected.  The callback is invoked at most once in a call,
\* only on a settled promise, and before the method returns.
C12_BranchSelection ==
    \A p \in Promises, c \in Callers :
        /\ (cm[c] = "Then" /\ cpc[c] = "returned" /\ cres[c].via = "done") =>
              /\ cres[c].ret = "p"
              /\ cres[c].cb <=> isFulfilled(p)
              /\ cres[c].cb => cres[c].cbValue = optionalValue[p].v
        /\ (cm[c] = "Catch" /\ cpc[c] = "returned" /\ cres[c].via = "done") =>
              /\ cres[c].ret = "p"
              /\ cres[c].cb <=> isRejected(p)
              /\ cres[c].cb => cres[c].cbReason = reason[p]
        /\ (cm[c] \in {"Then", "Catch"} /\ cpc[c] = "callback") =>
              /\ isSettled(p) /\ done[p] = "closed"
              /\ ~cres[c].cb /\ cres[c].ret = "none"
              /\ cm[c] = "Then" => isFulfilled(p)
              /\ cm[c] = "Catch" => isRejected(p)
        /\ (cm[c] \in {"Then", "Catch"} /\ cres[c].cb) =>
              cpc[c] = "returned" /\ isSettled(p)

\* A Catch on the promise rejected by reject(nil) has invoked onRejected with
\* errNilReason and returned p.
C12_Witness ==
    \E p \in Promises, c \in Callers :
        /\ cm[c] = "Catch" /\ cpc[c] = "returned" /\ cres[c].ret = "p"
        /\ cres[c].cb /\ cres[c].cbReason = errNilReason

\* ------------------------------------------------------------------------
\* C13  Finally runs on either outcome: a Finally that took the done case
\* invokes onFinally, once, whether the promise is fulfilled or rejected,
\* never on a pending promise, and returns p, the promise it was called on.
C13_Finally ==
    \A p \in Promises, c \in Callers :
        cm[c] = "Finally" =>
            /\ (cpc[c] = "returned" /\ cres[c].via = "done") =>
                  cres[c].cb /\ cres[c].ret = "p" /\ isSettled(p)
            /\ cpc[c] = "callback" =>
                  /\ isSettled(p) /\ done[p] = "closed"
                  /\ ~cres[c].cb /\ cres[c].ret = "none"
            /\ cres[c].cb => cpc[c] = "returned" /\ cres[c].ret = "p"
            /\ cres[c].via = "done" => cpc[c] \in {"callback", "returned"}

\* A Finally on a rejected promise has invoked onFinally and returned p.
C13_Witness ==
    \E p \in Promises, c \in Callers :
        /\ cm[c] = "Finally" /\ cpc[c] = "returned" /\ cres[c].cb
        /\ cres[c].ret = "p" /\ isRejected(p)

\* ------------------------------------------------------------------------
\* The aggregators.
AllInputsFulfilled == \A i \in DOMAIN Inputs : isFulfilled(Inputs[i])
SomeInputRejected == \E i \in DOMAIN Inputs : isRejected(Inputs[i])
\* The collection the parent is fulfilled with: the array its slice shares.
ParentValue ==
    IF isFulfilled(Parent) /\ optionalValue[Parent].v = ResultsRef
      THEN results ELSE <<>>
\* promise.Await(ctx) has returned in child goroutine i.
WaitReturned(i) == cpc[Child[i]] \in {"returned", "reject", "Done", "exited"}
\* Element i of the collection is the value of input promise i.
InOrder ==
    /\ Len(ParentValue) = Len(Inputs)
    /\ \A i \in DOMAIN Inputs : ParentValue[i] = optionalValue[Inputs[i]].v

\* ------------------------------------------------------------------------
\* C14  All happy path and ordering: whenever every input promise is
\* fulfilled, the context is not canceled and the parent of All is settled,
\* the parent is fulfilled, not rejected, with a collection as long as the
\* input whose element i is the value of input i; and under fair scheduling,
\* once every input promise is fulfilled the parent is eventually fulfilled
\* with that collection, unless the context is canceled.
C14_AllInOrder ==
    /\ []((akind = "All" /\ AllInputsFulfilled /\ ~ctxDone /\ isSettled(Parent)) =>
            (isFulfilled(Parent) /\ ~isRejected(Parent) /\ InOrder))
    /\ ((akind = "All" /\ AllInputsFulfilled) ~>
            (ctxDone \/ (/\ akind = "All" /\ done[Parent] = "closed"
                         /\ isFulfilled(Parent) /\ InOrder)))

\* The parent of All is fulfilled with two different values in input order
\* although the second input promise settled before the first.
C14_Witness ==
    /\ akind = "All" /\ ~ctxDone /\ done[Parent] = "closed"
    /\ isFulfilled(Parent) /\ InOrder
    /\ ParentValue[1] # ParentValue[2]
    /\ Inputs[2] \in order[Inputs[1]]

\* resolve(results) was called by the parent's executor and has returned.
ResolveReturned == ncalls[AggExecutor] = 1 /\ spc[AggExecutor] = "idle"

\* ------------------------------------------------------------------------
\* C15  All rejects when a child rejects: while an input promise is rejected
\* the parent of All is never fulfilled; a fulfilled parent means every
\* input is fulfilled; a rejected parent carries the context's error or the
\* reason of an input; once the executor's resolve(results) has returned
\* with an input rejected, the parent is rejected still; and under fair
\* scheduling, once an input promise is rejected the parent ends rejected
\* and not fulfilled.
C15_AllRejects ==
    /\ [](akind = "All" =>
            /\ SomeInputRejected => ~isFulfilled(Parent)
            /\ isFulfilled(Parent) => AllInputsFulfilled
            /\ isRejected(Parent) =>
                  \/ reason[Parent] = ctxErr /\ ctxDone
                  \/ \E i \in DOMAIN Inputs :
                        isRejected(Inputs[i]) /\ reason[Parent] = reason[Inputs[i]]
            /\ (SomeInputRejected /\ ResolveReturned) =>
                  done[Parent] = "closed" /\ isRejected(Parent))
    /\ ((akind = "All" /\ SomeInputRejected) ~>
            (done[Parent] = "closed" /\ isRejected(Parent) /\ ~isFulfilled(Parent)))

\* The second input promise is rejected and the first fulfilled, the context
\* is not canceled, the parent is rejected with the second's reason, and
\* resolve(results) has been called and has returned.
C15_Witness ==
    /\ akind = "All" /\ ~ctxDone
    /\ isFulfilled(Inputs[1]) /\ isRejected(Inputs[2])
    /\ done[Parent] = "closed" /\ reason[Parent] = reason[Inputs[2]]
    /\ ~isFulfilled(Parent) /\ ResolveReturned

\* ------------------------------------------------------------------------
\* C16  All reports the first failure: when two input promises are rejected
\* with different reasons, one of them closed before the other was even
\* settled, and the context is not canceled, a rejected parent of All
\* carries the reason of the one rejected first.
C16_FirstFailure ==
    \A a, b \in DOMAIN Inputs :
        (/\ akind = "All" /\ ~ctxDone
         /\ isRejected(Inputs[a]) /\ isRejected(Inputs[b])
         /\ reason[Inputs[a]] # reason[Inputs[b]]
         /\ Inputs[a] \in order[Inputs[b]]
         /\ isRejected(Parent)) =>
            reason[Parent] = reason[Inputs[a]]

\* ------------------------------------------------------------------------
\* C17  All joins before settling, as stated: the parent of All is pending
\* until promise.Await(ctx) has returned in every child goroutine, whether
\* it ends fulfilled or rejected.
C17_JoinBeforeSettling ==
    (akind = "All" /\ isSettled(Parent)) =>
        \A i \in DOMAIN Inputs : WaitReturned(i)

\* C17  All joins before fulfilling: the executor calls resolve(results)
\* only after every child goroutine has ended, so the parent of All is
\* fulfilled only after promise.Await(ctx) has returned in every child
\* goroutine; it is rejected only after the wait of some child goroutine
\* has returned an error, which may be while other waits are outstanding.
C17_JoinBeforeFulfilling ==
    akind = "All" =>
        /\ ncalls[AggExecutor] = 1 =>
              wg = 0 /\ \A i \in DOMAIN Inputs : cpc[Child[i]] = "exited"
        /\ isFulfilled(Parent) =>
              /\ wg = 0
              /\ \A i \in DOMAIN Inputs : WaitReturned(i) /\ cres[Child[i]].err = Nil
        /\ isRejected(Parent) =>
              \E i \in DOMAIN Inputs :
                  /\ WaitReturned(i)
                  /\ cres[Child[i]].err = reason[Parent]

\* The parent of All is rejected, its done channel closed, while the wait of
\* a child goroutine on a pending input promise is outstanding.
C17_Witness ==
    /\ akind = "All" /\ isRejected(Parent) /\ done[Parent] = "closed"
    /\ \E i \in DOMAIN Inputs :
          cpc[Child[i]] = "select" /\ ~isSettled(Inputs[i]) /\ ~ctxDone

\* ------------------------------------------------------------------------
\* C18  AllSettled never rejects: in every state the parent of AllSettled is
\* pending or fulfilled, never rejected; no goroutine is in a reject call on
\* it and no reject call ever got past its isSettled check.
C18_AllSettledNeverRejects ==
    akind = "AllSettled" =>
        /\ ~isRejected(Parent)
        /\ reason[Parent] = Nil
        /\ \A s \in AggSettlers : Target(s) = Parent => scall[s].fn # "reject"
        /\ \A c \in passed : Target(c.by) = Parent => c.call.fn = "resolve"

\* The parent of AllSettled is fulfilled, its done channel closed, with one
\* input promise rejected, the other pending, and the context canceled.
C18_Witness ==
    /\ akind = "AllSettled" /\ ctxDone
    /\ isFulfilled(Parent) /\ done[Parent] = "closed"
    /\ \E i, j \in DOMAIN Inputs :
          /\ isRejected(Inputs[i]) /\ cres[Child[i]].err = reason[Inputs[i]]
          /\ ~isSettled(Inputs[j]) /\ cres[Child[j]].err = ctxErr

\* ------------------------------------------------------------------------
\* C19  AllSettled per-index outcomes: when the parent of AllSettled is
\* fulfilled and the context is not canceled, its collection has one slot
\* per input promise, every input is settled, and slot i is
\* {Fulfilled, v, nil} for an input fulfilled with v and {Rejected, zero, r}
\* for an input rejected with r; and a slot never has Status Fulfilled with
\* a non-nil Reason or Status Rejected with a nil Reason.
C19_PerIndexOutcomes ==
    akind = "AllSettled" =>
        /\ (isFulfilled(Parent) /\ ~ctxDone) =>
              /\ Len(ParentValue) = Len(Inputs)
              /\ \A i \in DOMAIN Inputs :
                    /\ isSettled(Inputs[i])
                    /\ isFulfilled(Inputs[i]) =>
                          ParentValue[i] =
                              SettledResult(Fulfilled, optionalValue[Inputs[i]].v, Nil)
                    /\ isRejected(Inputs[i]) =>
                          ParentValue[i] =
                              SettledResult(Rejected, Zero, reason[Inputs[i]])
        /\ \A i \in DOMAIN results :
              /\ results[i].Status \in {Fulfilled, Rejected}
              /\ results[i].Status = Fulfilled => results[i].Reason = Nil
              /\ results[i].Status = Rejected =>
                    results[i].Reason # Nil /\ results[i].Value = Zero

\* The parent of AllSettled is fulfilled with {Rejected, zero, r} in slot 1
\* and {Fulfilled, MaxValue, nil} in slot 2, the context not canceled, the
\* second input promise having settled before the first.
C19_Witness ==
    /\ akind = "AllSettled" /\ ~ctxDone
    /\ isFulfilled(Parent) /\ done[Parent] = "closed"
    /\ ParentValue = <<SettledResult(Rejected, Zero, reason[Inputs[1]]),
                       SettledResult(Fulfilled, MaxValue, Nil)>>
    /\ isRejected(Inputs[1])
    /\ Inputs[2] \in order[Inputs[1]]

\* ------------------------------------------------------------------------
\* C20  Aggregator completion: under fair scheduling, once every input
\* promise is settled or the context is canceled, the parent of All and the
\* parent of AllSettled are eventually settled with their done channel
\* closed, the parent of AllSettled fulfilled; and the parent of AllSettled
\* is settled only if every input promise is settled or the context is
\* canceled, so it stays pending for as long as neither happens.
C20_Completion ==
    /\ (((\A i \in DOMAIN Inputs : isSettled(Inputs[i])) \/ ctxDone) ~>
            (/\ done[Parent] = "closed" /\ isSettled(Parent)
             /\ akind = "AllSettled" => isFulfilled(Parent)))
    /\ []((akind = "AllSettled" /\ isSettled(Parent)) =>
            (ctxDone \/ \A i \in DOMAIN Inputs : done[Inputs[i]] = "closed"))

\* No input promise was ever settled, the context is canceled, and the
\* parent of All is rejected with the context's error, its done channel
\* closed and its executor finished.
C20_Witness ==
    /\ akind = "All" /\ ctxDone
    /\ \A i \in DOMAIN Inputs :
          ~isSettled(Inputs[i]) /\ ncalls[InputExecutor[i]] = 0
    /\ reason[Parent] = ctxErr /\ done[Parent] = "closed" /\ ResolveReturned

\* ------------------------------------------------------------------------
\* The call reject(nil).
RejectNil == [fn |-> "reject", arg |-> Nil]

\* C21  Reason required: a reject(nil) that finds the promise pending writes
\* errNilReason, which is not nil, and leaves optionalValue alone, so the
\* promise is rejected; its close step finds the done channel open, closes
\* it and raises no panic; a reject(nil) that finds the promise settled goes
\* straight to its return and changes nothing.  The promise holds
\* errNilReason only if a reject(nil) got past the isSettled check.
C21_ReasonRequired ==
    /\ [](\A p \in Promises :
            /\ errNilReason # Nil
            /\ reason[p] = errNilReason => \E w \in passed : w.call = RejectNil
            /\ ~panicked)
    /\ [][\A p \in Promises, s \in Settlers :
            (scall[s] = RejectNil /\ spc'[s] # spc[s]) =>
                /\ (spc[s] = "isSettled" /\ ~isSettled(p)) => spc'[s] = "write"
                /\ spc[s] = "write" =>
                      /\ reason'[p] = errNilReason /\ reason'[p] # Nil
                      /\ optionalValue'[p] = None
                      /\ done'[p] = "open" /\ spc'[s] = "close"
                /\ spc[s] = "close" =>
                      /\ done[p] = "open" /\ done'[p] = "closed" /\ ~panicked'
                      /\ reason'[p] = errNilReason /\ spc'[s] = "Unlock"
                /\ (spc[s] = "isSettled" /\ isSettled(p)) =>
                      /\ spc'[s] = "Unlock"
                      /\ optionalValue'[p] = optionalValue[p]
                      /\ reason'[p] = reason[p]
                      /\ done'[p] = done[p]
                /\ spc[s] = "Unlock" =>
                      /\ optionalValue'[p] = optionalValue[p]
                      /\ reason'[p] = reason[p]
                      /\ done'[p] = "closed" /\ done[p] = "closed"]_vars

\* A reject(nil) settled the promise with errNilReason and closed its done
\* channel, and a second reject(nil), by another goroutine, found it settled
\* and is returning.
C21_Witness ==
    \E p \in Promises, s \in Settlers :
        /\ reason[p] = errNilReason /\ ~isFulfilled(p) /\ done[p] = "closed"
        /\ ~panicked
        /\ \E w \in passed : w.call = RejectNil /\ w.by # s
        /\ scall[s] = RejectNil /\ NoOpCall(s, p) /\ spc[s] = "Unlock"

\* ------------------------------------------------------------------------
\* C22  Broadcast liveness: under fair scheduling, every caller waiting at
\* the select of Await, Then, Catch or Finally on a settled promise
\* eventually returns, whether it began to wait before or after the
\* settlement; a closed done channel is never reopened; and a caller at its
\* select on a closed done channel can take the done case at once.
C22_Broadcast ==
    /\ \A p \in Promises, c \in Callers :
          (cpc[c] = "select" /\ isSettled(p)) ~> (cpc[c] = "returned")
    /\ [](\A p \in Promises, c \in Callers :
            (cpc[c] = "select" /\ done[p] = "closed") => ENABLED SelectDone(c, p))
    /\ [][\A p \in Promises : done[p] = "closed" => done'[p] = "closed"]_done

\* Two callers have returned through the done case from different methods,
\* one having begun to wait before the done channel was closed and the other
\* after.
C22_Witness ==
    \E p \in Promises, c, d \in Callers :
        /\ c # d /\ cm[c] # cm[d] /\ done[p] = "closed"
        /\ cpc[c] = "returned" /\ cres[c].via = "done" /\ ~cres[c].sawDone
        /\ cpc[d] = "returned" /\ cres[d].via = "done" /\ cres[d].sawDone

\* ------------------------------------------------------------------------
\* C23  Status rendering: String returns "fulfilled" for Fulfilled,
\* "rejected" for Rejected and "unknown" for every other value, negative or
\* greater than 1, and never indexes statusStrings out of range.
C23_StatusString ==
    str # NoString =>
        /\ status = Fulfilled => str = "fulfilled"
        /\ status = Rejected => str = "rejected"
        /\ (status < 0 \/ status > 1) => str = "unknown"
        /\ str # IndexPanic
        /\ str \in {"fulfilled", "rejected", "unknown"}

\* String was called on the least int32 and returned "unknown".
C23_Witness == status = MinInt32 /\ status < 0 /\ str = "unknown"

\* ------------------------------------------------------------------------
\* C24  No lock held while suspended: a caller holds the read lock of the
\* promise only between RLock and RUnlock, so not at its select, not during
\* its callback and not after it returned, and it never holds the write
\* lock; a resolve or reject call waiting for the write lock can take it
\* whenever every caller is at its select, in its callback or outside a
\* method; and under fair scheduling every resolve or reject call returns,
\* however many callers are blocked.
C24_NoLockWhileSuspended ==
    /\ [](\A p \in Promises, c \in Callers :
            /\ c \in mutexR[p] <=> cpc[c] = "read"
            /\ mutexW[p] # c
            /\ cpc[c] \in {"select", "callback", "returned", "idle"} =>
                  c \notin mutexR[p])
    /\ [](\A p \in Promises, s \in Settlers :
            (/\ spc[s] = "Lock" /\ mutexW[p] = NoHolder
             /\ \A c \in Callers : cpc[c] \in {"select", "callback", "returned", "idle"}) =>
                ENABLED Lock(s, p))
    /\ \A s \in Settlers : (spc[s] # "idle") ~> (spc[s] = "idle")

\* The executor holds the write lock of a pending promise, taken while both
\* callers were blocked at their select.
C24_Witness ==
    \E p \in Promises :
        /\ mutexW[p] = "executor" /\ spc["executor"] = "isSettled"
        /\ ~isSettled(p) /\ done[p] = "open"
        /\ \A c \in Callers : cpc[c] = "select"
        /\ \E c, d \in Callers : cm[c] = "Await" /\ cm[d] = "Then"

\* ------------------------------------------------------------------------
\* C25  Disjoint writes and completion barrier: in All and AllSettled a slot
\* of results changes only in the step in which its own child goroutine
\* stores what its Await returned, and that step changes no other slot; the
\* executor calls resolve(results) only after wg.Wait, when every child
\* goroutine has ended; and from that call on results never changes, so
\* what the parent is fulfilled with is what its readers see.
C25_DisjointWrites ==
    /\ [](ncalls[AggExecutor] = 1 =>
            wg = 0 /\ \A i \in DOMAIN Inputs : cpc[Child[i]] = "exited")
    /\ [][\A j \in DOMAIN results :
            results'[j] # results[j] =>
                /\ cpc[Child[j]] = "returned" /\ cpc'[Child[j]] = "Done"
                /\ ncalls[AggExecutor] = 0
                /\ \A k \in DOMAIN results \ {j} : results'[k] = results[k]]_results
    /\ [][(ncalls[AggExecutor] = 1 \/ isFulfilled(Parent)) => results' = results]_results

\* Both child goroutines of AllSettled have stored different outcomes in
\* their own slots and ended, and the executor is calling resolve(results).
C25_Witness ==
    /\ akind = "AllSettled" /\ wg = 0
    /\ \A i \in DOMAIN Inputs : cpc[Child[i]] = "exited"
    /\ results[1].Status = Rejected /\ results[2].Status = Fulfilled
    /\ results[2].Value = MaxValue
    /\ ncalls[AggExecutor] = 1 /\ spc[AggExecutor] = "Lock" /\ ~isSettled(Parent)

\* ------------------------------------------------------------------------
\* C26  Provenance of All's rejection reason: a rejected parent of All
\* carries the reason of a rejected input promise or the context's error,
\* the latter only if the context is canceled; and a fulfilled parent means
\* that in every child goroutine Await took the done case and returned the
\* value its input promise is fulfilled with, which is the value in the
\* child's slot.
C26_Provenance ==
    akind = "All" =>
        /\ isRejected(Parent) =>
              \/ \E i \in DOMAIN Inputs :
                    isRejected(Inputs[i]) /\ reason[Parent] = reason[Inputs[i]]
              \/ reason[Parent] = ctxErr
        /\ reason[Parent] = ctxErr => ctxDone
        /\ isFulfilled(Parent) =>
              \A i \in DOMAIN Inputs :
                  /\ cres[Child[i]].via = "done" /\ cres[Child[i]].err = Nil
                  /\ isFulfilled(Inputs[i])
                  /\ cres[Child[i]].val = optionalValue[Inputs[i]].v
                  /\ results[i] = optionalValue[Inputs[i]].v

\* Every input promise is fulfilled, yet the parent of All is rejected with
\* the context's error: the context was canceled while a child goroutine
\* was still at its select.
C26_Witness ==
    /\ akind = "All" /\ ctxDone /\ AllInputsFulfilled
    /\ \A i \in DOMAIN Inputs : done[Inputs[i]] = "closed"
    /\ reason[Parent] = ctxErr /\ done[Parent] = "closed" /\ ~isFulfilled(Parent)

\* The outcome of input promise i as a SettledResult.
OwnOutcome(i) ==
    IF isRejected(Inputs[i])
      THEN SettledResult(Rejected, Zero, reason[Inputs[i]])
      ELSE SettledResult(Fulfilled, optionalValue[Inputs[i]].v, Nil)

\* ------------------------------------------------------------------------
\* C27  AllSettled under cancellation: once a child goroutine whose Await
\* took the ctx case has stored its result, slot i is {Rejected, zero, the
\* context's error}, whether or not input promise i is settled; the slot of
\* a child whose Await took the done case holds its input's own outcome;
\* and the parent, once settled, is fulfilled and not rejected.
C27_AllSettledCanceled ==
    akind = "AllSettled" =>
        /\ \A i \in DOMAIN Inputs :
              cpc[Child[i]] \in {"Done", "exited"} =>
                  /\ cres[Child[i]].via = "ctx" =>
                        /\ ctxDone /\ ctxErr # Nil
                        /\ results[i] = SettledResult(Rejected, Zero, ctxErr)
                  /\ cres[Child[i]].via = "done" =>
                        isSettled(Inputs[i]) /\ results[i] = OwnOutcome(i)
        /\ isSettled(Parent) => isFulfilled(Parent) /\ ~isRejected(Parent)

\* The parent of AllSettled is fulfilled; the wait on the first input
\* promise, which is fulfilled, was abandoned and its slot holds the
\* context's error, while the slot of the second holds its own rejection.
C27_Witness ==
    /\ akind = "AllSettled" /\ ctxDone
    /\ isFulfilled(Parent) /\ done[Parent] = "closed"
    /\ cres[Child[1]].via = "ctx" /\ isFulfilled(Inputs[1])
    /\ ParentValue[1] = SettledResult(Rejected, Zero, ctxErr)
    /\ cres[Child[2]].via = "done" /\ isRejected(Inputs[2])
    /\ ParentValue[2] = OwnOutcome(2)

\* ------------------------------------------------------------------------
\* C28  Empty aggregation: the parent of All or AllSettled called with no
\* promises is never rejected; when fulfilled it holds the empty collection;
\* an Await on it that took the done case returns that collection and a nil
\* error; and under fair scheduling it is eventually fulfilled, its done
\* channel closed, whether the context is canceled before the call, after
\* it or never.
C28_EmptyAggregation ==
    /\ [](/\ promises = <<>>
          /\ ~isRejected(Parent)
          /\ isFulfilled(Parent) =>
                /\ optionalValue[Parent].v = ResultsRef
                /\ results = <<>> /\ Len(ParentValue) = 0
          /\ \A c \in Callers :
                AwaitedDone(c) => cres[c].val = ResultsRef /\ cres[c].err = Nil)
    /\ <>(done[Parent] = "closed" /\ isFulfilled(Parent) /\ results = <<>>)

\* The parent of AllSettled over no promises is fulfilled with the empty
\* collection under a canceled context, and an Await entered after the
\* cancellation has returned the collection.
C28_Witness ==
    /\ akind = "AllSettled" /\ promises = <<>> /\ ctxDone
    /\ isFulfilled(Parent) /\ done[Parent] = "closed" /\ results = <<>>
    /\ \E c \in Callers : AwaitedDone(c) /\ cres[c].sawCtx
====
